---- MODULE Spec2Model ----
(***************************************************************************)
(* Grapefruit: the CNC link (utils/connector.py) and the parts of the UI   *)
(* (ui.py) that drive it.  Text is a sequence of one-character strings;    *)
(* Python's None / Optional is a sequence of length 0 or 1.                *)
(*                                                                         *)
(* The serial endpoint is pyserial's Serial object: a call on it either    *)
(* succeeds or raises serial.SerialException (the transport fault); a call *)
(* on a closed port raises PortNotOpenError, a SerialException; close() on *)
(* a closed port does nothing.                                             *)
(***************************************************************************)
EXTENDS Integers, Sequences, FiniteSets, TLC

VARIABLES self, ui, last, prev

vars == <<self, ui, last, prev>>

\* ------------------------------------------------------------- bounds ---
MaxLen == 3        \* longest line given to the sanitizer
MaxBoot == 1       \* lines of boot output waiting at connect()
MaxBatch == 3      \* lines in one streaming batch
MaxPorts == 2      \* serial ports of the host

\* ---------------------------------------------------------- constants ---
baud_rate == 9600          \* ui.py:34
default_port == 3          \* ui.py:33, "COM3"

\* ---------------------------------------------------------------- text ---
Whitespace == {" ", "\t", "\n", "\r"}
Alphabet == {" ", "G", ":", "/", "("}

RECURSIVE SeqsUpTo(_, _)
SeqsUpTo(S, n) ==
    IF n = 0 THEN {<<>>}
    ELSE LET shorter == SeqsUpTo(S, n - 1)
         IN shorter \cup {Append(s, c) : s \in {t \in shorter : Len(t) = n - 1}, c \in S}

Lines == SeqsUpTo(Alphabet, MaxLen)
\* the lines given to send_gcode: blank, plain, padded, comment-only, inline comment
Commands == {<<>>, <<" ">>, <<"G">>, <<" ", "G">>, <<"G", " ">>,
             <<"(", "G">>, <<":">>, <<"/", "G">>, <<"G", "(">>}
\* the lines of a batch: empty, blank, a command, a comment
StreamLines == {<<>>, <<" ">>, <<"G">>, <<"(", "G">>}
Batches == SeqsUpTo(StreamLines, MaxBatch)

None == <<>>
Some(v) == <<v>>

M105 == <<"M", "1", "0", "5">>
M02 == <<"M", "0", "2">>
CRLF == <<"\r", "\n">>

RECURSIVE lstrip(_)
lstrip(s) ==
    IF s # <<>> /\ Head(s) \in Whitespace THEN lstrip(Tail(s)) ELSE s

RECURSIVE rstrip(_)
rstrip(s) ==
    IF s # <<>> /\ s[Len(s)] \in Whitespace THEN rstrip(SubSeq(s, 1, Len(s) - 1)) ELSE s

strip(s) == rstrip(lstrip(s))

startswith(s, c) == Len(s) >= 1 /\ s[1] = c

contains(s, c) == \E i \in 1..Len(s) : s[i] = c

\* s.split(sep, 1)[0]: the text before the first occurrence of sep
RECURSIVE split_first(_, _)
split_first(s, sep) ==
    IF s = <<>> \/ Head(s) = sep THEN <<>>
    ELSE <<Head(s)>> \o split_first(Tail(s), sep)

\* ------------------------------------------------- CNC._parse_command ---
comment_markers == <<":", "/", "(">>

\* the loop with the truncation applied to the command
RECURSIVE truncating_loop(_, _)
truncating_loop(command, comments) ==
    IF comments = <<>> THEN command
    ELSE LET comment == Head(comments)
             cut == IF contains(command, comment)
                    THEN split_first(command, comment) ELSE command
         IN truncating_loop(cut, Tail(comments))

\* connector.py:119-122: the loop rebinds its own variable, and the command
\* comes out as it went in
RECURSIVE comment_loop(_, _)
comment_loop(command, comments) ==
    IF comments = <<>> THEN command
    ELSE LET comment == Head(comments)
             rebound == IF contains(command, comment)
                        THEN split_first(<<comment>>, comment) ELSE <<comment>>
         IN comment_loop(command, Tail(comments))

_parse_command(command) ==
    LET c == strip(command)
    IN IF ~(startswith(c, ":") \/ startswith(c, "/") \/ startswith(c, "(")) /\ c # <<>>
       THEN Some(comment_loop(c, comment_markers))
       ELSE None

\* ------------------------------------------------------ CNC.send_gcode ---
\* w: what the write does on an open port; r: what the read gives
WriteOutcomes == {"ok", "fault"}
ReadOutcomes == {"text", "empty", "undecodable", "fault"}

Result(kind, val, events, written, fault) ==
    [kind |-> kind, val |-> val, events |-> events, written |-> written, fault |-> fault]

\* send_gcode without the except clause: the fault leaves the function
send_gcode_propagating(connector, command, verbose, run_anyway, w, r) ==
    LET parsed == IF run_anyway THEN Some(command) ELSE _parse_command(command)
        say == IF verbose THEN <<"print">> ELSE <<>>
    IN IF (parsed # None /\ parsed[1] # <<>>) \/ run_anyway
       THEN LET bytes == strip(parsed[1]) \o CRLF
            IN IF connector = "None"
               THEN Result("raise", "AttributeError", say, <<>>, FALSE)
               ELSE IF connector = "closed" \/ w = "fault"
               THEN Result("raise", "SerialException", say \o <<"write">>, <<>>, TRUE)
               ELSE IF r = "fault"
               THEN Result("raise", "SerialException",
                           say \o <<"write", "sleep", "read">>, <<bytes>>, TRUE)
               ELSE IF r = "undecodable"
               THEN Result("raise", "UnicodeDecodeError",
                           say \o <<"write", "sleep", "read">>, <<bytes>>, FALSE)
               ELSE Result("return", IF r = "text" THEN "ok" ELSE "",
                           say \o <<"write", "sleep", "read">> \o say, <<bytes>>, FALSE)
       ELSE Result("return", "None", say, <<>>, FALSE)

send_gcode(connector, command, verbose, run_anyway, w, r) ==
    LET parsed == IF run_anyway THEN Some(command) ELSE _parse_command(command)
        say == IF verbose THEN <<"print">> ELSE <<>>
    IN IF (parsed # None /\ parsed[1] # <<>>) \/ run_anyway
       THEN LET bytes == strip(parsed[1]) \o CRLF
            IN IF connector = "None"
               THEN \* None has no write(): AttributeError, not caught
                    Result("raise", "AttributeError", say, <<>>, FALSE)
               ELSE IF connector = "closed" \/ w = "fault"
               THEN \* write() raises SerialException: caught, logged
                    Result("return", "None", say \o <<"write", "log">>, <<>>, TRUE)
               ELSE IF r = "fault"
               THEN Result("return", "None",
                           say \o <<"write", "sleep", "read", "log">>, <<bytes>>, TRUE)
               ELSE IF r = "undecodable"
               THEN \* decode("utf-8") is strict: UnicodeDecodeError, not caught
                    Result("raise", "UnicodeDecodeError",
                           say \o <<"write", "sleep", "read">>, <<bytes>>, FALSE)
               ELSE Result("return", IF r = "text" THEN "ok" ELSE "",
                           say \o <<"write", "sleep", "read">> \o say, <<bytes>>, FALSE)
       ELSE Result("return", "None", say, <<>>, FALSE)

handshake(connector, w, r) == send_gcode(connector, M105, TRUE, FALSE, w, r)

\* --------------------------------------------------------- CNC.connect ---
CallOutcomes == {"ok", "fault"}
BootOutput == SeqsUpTo({"line", "blank", "fault"}, MaxBoot)
AllEnvs == [open : CallOutcomes, boot : BootOutput, flush1 : CallOutcomes,
            w : WriteOutcomes, r : ReadOutcomes, flush2 : CallOutcomes]

BootFaults(e) == \E i \in 1..Len(e.boot) : e.boot[i] = "fault"

\* one environment for each execution: the outcome of a call that the
\* execution does not reach is fixed
Envs == {e \in AllEnvs :
            /\ e.open = "fault" => e.boot = <<>>
            /\ \A i \in 1..Len(e.boot) : e.boot[i] = "fault" => i = Len(e.boot)
            /\ (e.open = "fault" \/ BootFaults(e)) => e.flush1 = "ok"
            /\ (e.open = "fault" \/ BootFaults(e) \/ e.flush1 = "fault") => e.w = "ok"
            /\ (e.open = "fault" \/ BootFaults(e) \/ e.flush1 = "fault"
                    \/ e.w = "fault") => e.r = "text"
            /\ (e.open = "fault" \/ BootFaults(e) \/ e.flush1 = "fault"
                    \/ e.r = "undecodable") => e.flush2 = "ok"}

\* connector.py:39-50: read the boot output until nothing is waiting
RECURSIVE drain(_, _)
drain(boot, events) ==
    IF boot = <<>> THEN [fault |-> FALSE, events |-> Append(events, "in_waiting")]
    ELSE IF Head(boot) = "fault"
    THEN [fault |-> TRUE, events |-> events \o <<"in_waiting", "readline">>]
    ELSE drain(Tail(boot),
               events \o <<"in_waiting", "readline">>
                      \o (IF Head(boot) = "line" THEN <<"print">> ELSE <<>>))

CallResult(connector, kind, val, events, written, fault, logged) ==
    [connector |-> connector, kind |-> kind, val |-> val, events |-> events,
     written |-> written, fault |-> fault, logged |-> logged]

\* the except clause of connect(): log, then raise again
Reraised(connector, events, written) ==
    CallResult(connector, "raise", "SerialException", Append(events, "log"),
               written, TRUE, TRUE)

connect(connector, env) ==
    IF env.open = "fault" THEN Reraised(connector, <<"open">>, <<>>)
    ELSE LET d == drain(env.boot, <<"open", "sleep">>)
         IN IF d.fault THEN Reraised("open", d.events, <<>>)
            ELSE IF env.flush1 = "fault"
            THEN Reraised("open", Append(d.events \o <<"print">>, "flush"), <<>>)
            ELSE LET h == handshake("open", env.w, env.r)
                     ev == d.events \o <<"print", "flush">> \o h.events
                 IN IF h.kind = "raise"
                    THEN CallResult("open", "raise", h.val, ev, h.written, h.fault, FALSE)
                    ELSE IF env.flush2 = "fault"
                    THEN Reraised("open", Append(ev, "flush"), h.written)
                    ELSE CallResult("open", "return", "True",
                                    ev \o <<"flush", "print">>, h.written, h.fault, h.fault)

\* ------------------------------------------------------- CNC.terminate ---
terminate(connector, w, r) ==
    IF connector # "None"
    THEN LET s == send_gcode(connector, M02, TRUE, FALSE, w, r)
         IN IF s.kind = "raise"
            THEN CallResult(connector, "raise", s.val, s.events, s.written, s.fault, s.fault)
            ELSE CallResult("closed", "return", "None", Append(s.events, "close"),
                            s.written, s.fault, s.fault)
    ELSE CallResult(connector, "return", "None", <<>>, <<>>, FALSE, FALSE)

\* ------------------------------------------------------- the CNC link ---
Ports == 1..MaxPorts

Connected(connector) == connector = "open"
Disconnected(connector) == connector # "open"

NoCall == [op |-> "init"]

\* the other module's objects, when only one of the two is exercised
NoUI == [serial_port |-> default_port, baud_rate |-> baud_rate, cnc |-> None,
         machine_menu |-> <<>>, machine |-> None]
NoLink == [serial_port |-> 0, baud_rate |-> 0, connector |-> "None"]

\* CNC.__init__
LinkInit ==
    /\ self \in [serial_port : Ports, baud_rate : {baud_rate}, connector : {"None"}]
    /\ ui = NoUI
    /\ last = NoCall
    /\ prev = "init"

Connect(env) ==
    LET c == connect(self.connector, env)
    IN /\ self' = [self EXCEPT !.connector = c.connector]
       /\ last' = [op |-> "connect", pre |-> self.connector, kind |-> c.kind,
                   val |-> c.val, events |-> c.events, written |-> c.written,
                   fault |-> c.fault, logged |-> c.logged]
       /\ prev' = last.op
       /\ UNCHANGED ui

SendGcode(command, verbose, run_anyway, w, r) ==
    LET s == send_gcode(self.connector, command, verbose, run_anyway, w, r)
    IN /\ last' = [op |-> "send_gcode", pre |-> self.connector, kind |-> s.kind,
                   val |-> s.val, events |-> s.events, written |-> s.written,
                   fault |-> s.fault, command |-> command, run_anyway |-> run_anyway]
       /\ prev' = last.op
       /\ UNCHANGED <<self, ui>>

Terminate(w, r) ==
    LET t == terminate(self.connector, w, r)
    IN /\ self' = [self EXCEPT !.connector = t.connector]
       /\ last' = [op |-> "terminate", pre |-> self.connector, kind |-> t.kind,
                   val |-> t.val, events |-> t.events, written |-> t.written,
                   fault |-> t.fault]
       /\ prev' = last.op
       /\ UNCHANGED ui

LinkNext ==
    \/ \E env \in Envs : Connect(env)
    \/ \E command \in Commands, verbose \in BOOLEAN, run_anyway \in BOOLEAN,
          w \in WriteOutcomes, r \in ReadOutcomes :
            SendGcode(command, verbose, run_anyway, w, r)
    \/ \E w \in WriteOutcomes, r \in ReadOutcomes : Terminate(w, r)

LinkSpec == LinkInit /\ [][LinkNext]_vars

\* ------------------------------------------------------- the sanitizer ---
ParseInit ==
    /\ self = NoLink
    /\ ui = NoUI
    /\ last = NoCall
    /\ prev = "init"

ParseCommand(command) ==
    /\ last' = [op |-> "_parse_command", command |-> command,
                val |-> _parse_command(command)]
    /\ prev' = last.op
    /\ UNCHANGED <<self, ui>>

ParseNext == \E command \in Lines : ParseCommand(command)

ParseSpec == ParseInit /\ [][ParseNext]_vars

\* ------------------------------------------------------- get_machines ---
Descriptions == {"usb", "n/a"}
Comports == {S \in SUBSET [port : Ports, desc : Descriptions] :
                \A a \in S, b \in S : a.port = b.port => a = b}

RECURSIVE sorted(_)
sorted(S) ==
    IF S = {} THEN <<>>
    ELSE LET m == CHOOSE x \in S : \A y \in S : x.port <= y.port
         IN <<m>> \o sorted(S \ {m})

Known(m) == m.desc # "n/a"

get_machines(comports) == SelectSeq(sorted(comports), Known)

\* --------------------------------------------------- UI._construct_menus ---
\* ui.py:98-99: every command is a lambda whose free variable is the loop
\* variable `machine` of the enclosing call, read when the command runs
RECURSIVE _construct_menus(_, _, _)
_construct_menus(machines, machine_menu, machine) ==
    IF machines = <<>> THEN [machine_menu |-> machine_menu, machine |-> machine]
    ELSE _construct_menus(Tail(machines),
                          Append(machine_menu, [label |-> Head(machines).port,
                                                free |-> "machine"]),
                          Some(Head(machines)))

\* ------------------------------------------------------ UI._stream_gcode ---
Ev(e, line) == [e |-> e, line |-> line]

\* the loop with the delay outside the truthiness test
RECURSIVE stream_loop_dedented(_, _, _, _)
stream_loop_dedented(commands, i, verbose, events) ==
    IF i > Len(commands) THEN events
    ELSE stream_loop_dedented(commands, i + 1, verbose,
             events \o (IF commands[i] # <<>> /\ verbose THEN <<Ev("print", i)>> ELSE <<>>)
                    \o <<Ev("sleep", i)>>)

\* ui.py:142-148: the send is commented out; a truthy line is printed and slept on
RECURSIVE stream_loop(_, _, _, _)
stream_loop(commands, i, verbose, events) ==
    IF i > Len(commands) THEN events
    ELSE IF commands[i] # <<>>
    THEN stream_loop(commands, i + 1, verbose,
             events \o (IF verbose THEN <<Ev("print", i)>> ELSE <<>>)
                    \o <<Ev("sleep", i)>>)
    ELSE stream_loop(commands, i + 1, verbose, events)

_stream_gcode(cnc, commands, verbose) ==
    [cnc |-> cnc, events |-> stream_loop(commands, 1, verbose, <<>>), written |-> <<>>]

\* ------------------------------------------------------------- the UI ---
\* UI.__init__
UIInit ==
    /\ \E comports \in Comports :
          LET m == _construct_menus(get_machines(comports), <<>>, None)
          IN ui = [serial_port |-> default_port, baud_rate |-> baud_rate, cnc |-> None,
                   machine_menu |-> m.machine_menu, machine |-> m.machine]
    /\ self = NoLink
    /\ last = NoCall
    /\ prev = "init"

\* the i-th command of the Machine menu: the lambda, then _connect_to_machine
MenuCommand(i, env) ==
    /\ i \in 1..Len(ui.machine_menu)
    /\ LET serial_port == ui.machine[1].port
           c == connect("None", env)
       IN /\ ui' = [ui EXCEPT !.serial_port = serial_port,
                              !.cnc = Some([serial_port |-> serial_port,
                                            baud_rate |-> ui.baud_rate,
                                            connector |-> c.connector])]
          /\ last' = [op |-> "menu", label |-> ui.machine_menu[i].label,
                      kind |-> c.kind, val |-> c.val, written |-> c.written]
    /\ UNCHANGED <<self, prev>>

\* _run_mdi / _run_gcode, run by their buttons with the default verbose=True:
\* the lines of the text widget go to _stream_gcode
RunGcode(commands) ==
    LET g == _stream_gcode(ui.cnc, commands, TRUE)
    IN /\ ui' = [ui EXCEPT !.cnc = g.cnc]
       /\ last' = [op |-> "_stream_gcode", commands |-> commands,
                   events |-> g.events, written |-> g.written]
       /\ UNCHANGED <<self, prev>>

UINext ==
    \/ \E i \in Ports, env \in Envs : MenuCommand(i, env)
    \/ \E commands \in Batches : RunGcode(commands)

UISpec == UIInit /\ [][UINext]_vars

\* ============================================================ claims ===
IO(events) == SelectSeq(events, LAMBDA e : e \in {"write", "read"})

Transmittable(command, run_anyway) == run_anyway \/ _parse_command(command) # None

\* C1: send_gcode with a transmittable command on a link that is not
\* connected (never connected, or terminated) writes nothing to the endpoint
\* and ends in a defined outcome, never in an uncaught exception.
C1_SendWhileDisconnected ==
    (last.op = "send_gcode" /\ Disconnected(last.pre)
        /\ Transmittable(last.command, last.run_anyway))
    => (last.written = <<>> /\ last.kind = "return")

\* C2: terminate() raises nothing and leaves the link Disconnected, whatever
\* the state it is called in; called a second time in succession it writes
\* no shutdown command.
C2_TerminateIdempotent ==
    last.op = "terminate"
    => /\ last.kind = "return"
       /\ Disconnected(self.connector)
       /\ (prev = "terminate" => last.written = <<>>)

\* C4: an execution of connect() in which a transport fault occurred logs the
\* fault and raises it again and returns no value; connect() returns True
\* only when no step faulted.
C4_ConnectReraisesFault ==
    last.op = "connect"
    => /\ (last.fault => (last.kind = "raise" /\ last.val = "SerialException"
                            /\ last.logged))
       /\ (last.kind = "return" => (last.val = "True" /\ ~last.fault))

\* C5: the link is constructed Disconnected, is Connected after connect()
\* returned, and is Disconnected, with no open endpoint, after connect()
\* failed.
C5_StateFollowsConnect ==
    /\ (last.op = "init" => Disconnected(self.connector))
    /\ (last.op = "connect" /\ last.kind = "return" => Connected(self.connector))
    /\ (last.op = "connect" /\ last.kind = "raise" => Disconnected(self.connector))

\* C7: terminate() on a Connected link writes M02 and then closes the
\* endpoint, the close happening whatever the M02 send did; on a
\* Disconnected link it writes nothing and closes nothing.
C7_TerminateAlwaysCloses ==
    last.op = "terminate"
    => /\ Connected(last.pre)
            => /\ self.connector = "closed"
               /\ last.events # <<>>
               /\ last.events[Len(last.events)] = "close"
               /\ \E i \in 1..Len(last.events) : last.events[i] = "write"
               /\ \A i \in 1..Len(last.written) : last.written[i] = M02 \o CRLF
       /\ Disconnected(last.pre)
            => /\ last.written = <<>>
               /\ self.connector = last.pre

\* C8: on a Connected link send_gcode never lets a transport fault out: a
\* fault of the write or of the read gives the absent result; an absent
\* sanitized command (run_anyway false) gives no write, no read and the
\* absent result; a text result comes after exactly one write then one read.
C8_SendSwallowsFault ==
    (last.op = "send_gcode" /\ Connected(last.pre))
    => /\ ~(last.kind = "raise" /\ last.val = "SerialException")
       /\ (last.fault => (last.kind = "return" /\ last.val = "None"))
       /\ ((~last.run_anyway /\ _parse_command(last.command) = None)
              => (IO(last.events) = <<>> /\ last.kind = "return" /\ last.val = "None"))
       /\ ((last.kind = "return" /\ last.val # "None")
              => IO(last.events) = <<"write", "read">>)

C8_Witness ==
    /\ last.op = "send_gcode"
    /\ Connected(last.pre)
    /\ last.fault
    /\ last.kind = "return"
    /\ last.val = "None"
    /\ IO(last.events) = <<"write", "read">>

\* the text between the first and the last character that is not whitespace
Ink(s) == {i \in 1..Len(s) : s[i] \notin Whitespace}
Min(S) == CHOOSE m \in S : \A n \in S : m <= n
Max(S) == CHOOSE m \in S : \A n \in S : m >= n
Trimmed(s) == IF Ink(s) = {} THEN <<>> ELSE SubSeq(s, Min(Ink(s)), Max(Ink(s)))

RECURSIVE SaidTransmitted(_)
SaidTransmitted(commands) ==
    IF commands = <<>> THEN <<>>
    ELSE (IF Head(commands) # <<>> /\ _parse_command(Head(commands)) # None
          THEN <<strip(Head(commands)) \o CRLF>> ELSE <<>>)
         \o SaidTransmitted(Tail(commands))

LinkOpen == ui.cnc # None /\ Connected(ui.cnc[1].connector)

\* C3: with a connected link, _stream_gcode transmits exactly the lines that
\* are non-empty and whose sanitized form is present, once each, in order.
C3_StreamTransmits ==
    (last.op = "_stream_gcode" /\ LinkOpen)
    => last.written = SaidTransmitted(last.commands)

Sleeps(events) == SelectSeq(events, LAMBDA e : e.e = "sleep")

Skipped(command) == command = <<>> \/ _parse_command(command) = None

\* C9 as stated: no delay follows a skipped line, empty or comment-only.
C9_NoDelayAfterSkipped ==
    last.op = "_stream_gcode"
    => \A k \in 1..Len(Sleeps(last.events)) :
          ~Skipped(last.commands[Sleeps(last.events)[k].line])

\* C9 as amended: the delay follows each non-empty line, once, in the order
\* of the lines, sanitizer-rejected lines included; no delay follows an
\* empty line.
C9_DelayAfterNonEmpty ==
    last.op = "_stream_gcode"
    => LET sl == Sleeps(last.events)
       IN /\ \A i \in 1..Len(last.commands) :
                Cardinality({k \in 1..Len(sl) : sl[k].line = i})
                    = IF last.commands[i] # <<>> THEN 1 ELSE 0
          /\ \A k \in 1..Len(sl) : sl[k].line \in 1..Len(last.commands)
          /\ \A j \in 1..Len(sl), k \in 1..Len(sl) : j < k => sl[j].line < sl[k].line

C9_Witness ==
    /\ last.op = "_stream_gcode"
    /\ last.commands = <<<<"G">>, <<>>, <<"(", "G">>>>
    /\ Len(Sleeps(last.events)) = 2

\* C10: the menu command made for the machine with port P builds a link
\* whose serial_port is P.
C10_MenuConnectsOwnPort ==
    last.op = "menu"
    => (ui.cnc # None /\ ui.cnc[1].serial_port = last.label
          /\ ui.serial_port = last.label)

====
